---- MODULE Spec2Model ----
(***************************************************************************)
(* Model of the OIDC/SSO bearer-token verification of src/auth.py: the two *)
(* process-wide caches (_DISCOVERY_CACHE, _JWKS_CACHE), the cached getters *)
(* _get_discovery and _get_jwks, the key lookup _find_jwk and              *)
(* verify_sso_token.                                                       *)
(*                                                                         *)
(* One verify_sso_token call is three steps in code order: line 96-97      *)
(* (_get_discovery), line 98 (_get_jwks), lines 100-140 (header, kid, key, *)
(* audience, jwt.decode).  Calls are sequential: the next call starts      *)
(* after the previous one has returned or raised.                          *)
(*                                                                         *)
(* Time is the integer clock read by time.time().  It advances between     *)
(* calls (Tick) and while a call is blocked in an origin fetch (the fetch  *)
(* delay, at most MaxFetchDelay); the other statements take no time.       *)
(***************************************************************************)
EXTENDS Integers, Sequences, FiniteSets, TLC

\* ---------------------------------------------------------------- bounds
MaxTime == 1        \* the clock stops advancing at MaxTime
MaxTTL == 1         \* the configured TTLs range over 0..MaxTTL
MaxHeaderRest == 3  \* an authorization header has at most MaxHeaderRest characters after its scheme
MaxFetchDelay == 1  \* an origin fetch blocks for 0..MaxFetchDelay seconds

\* ---------------------------------------------------------------- values
None == "None"                  \* Python None, where a string is expected
NoneObj == [none |-> TRUE]      \* Python None, where a JSON object is expected
EmptyObj == [empty |-> TRUE]    \* the JSON object {}
Fail == [failed |-> TRUE]       \* an origin fetch that raises (unreachable,
                                \* timeout, non-success status)

\* `if cached` of lines 52 and 72: None and {} are falsy, other dicts truthy.
Truthy(obj) == obj # NoneObj /\ obj # EmptyObj

\* dict.get(field) with default None.
Get(obj, field) == IF obj = EmptyObj THEN None ELSE obj[field]

Doc(iss, uri, te) == [issuer |-> iss, jwks_uri |-> uri, token_endpoint |-> te]

\* The discovery documents the origin can return.
DiscoveryDocs ==
  { Doc("issA", "uri", "te"),     \* complete
    Doc(None, "uri", "te"),       \* no issuer field
    Doc("issA", None, "te"),      \* no jwks_uri field
    EmptyObj }                    \* {}

Key(kid, mat) == [kid |-> kid, material |-> mat]

Jwks(keys) == [keys |-> keys]

\* The key sets the origin can return.  Key material "bad" is material that
\* RSAAlgorithm.from_jwk cannot parse.
KeySets ==
  { Jwks(<<Key("k1", "m1")>>),
    Jwks(<<Key("k1", "bad")>>),
    Jwks(<<Key("k2", "m1")>>),
    Jwks(<<Key("k1", "m2"), Key("k1", "m1")>>),   \* two records share a kid
    Jwks(<<Key("k2", "m1"), Key("k1", "m1")>>),   \* the match is not the first record
    EmptyObj }                                    \* {}

DiscoveryResponses == DiscoveryDocs \cup {Fail}
JwksResponses == KeySets \cup {Fail}

Payload(exp, aud, iss) == [exp |-> exp, aud |-> aud, iss |-> iss]

\* Expiry times: reached from the start, reached at clock 1, never reached.
ExpValues == {0, 1, MaxTime + 1}

Payloads == { Payload(e, a, i) : e \in ExpValues,
                                 a \in {"cid", "other"},
                                 i \in {"issA", "issB"} }

\* A token is its header (malformed, or well formed with a kid that may be
\* absent), its payload and the private key that signed it, named by the
\* material of the matching public key.
Token(hdr, kid, pl, sig) == [header |-> hdr, kid |-> kid, payload |-> pl, signed_by |-> sig]

MalformedToken == Token("malformed", None, Payload(0, "cid", "issA"), "m1")
NoKidToken == Token("ok", None, Payload(0, "cid", "issA"), "m1")

Tokens == {MalformedToken, NoKidToken}
          \cup { Token("ok", "k1", pl, s) : pl \in Payloads, s \in {"m1", "m2"} }

NoToken == [none |-> TRUE]

\* ------------------------------------------------------------- outcomes
HTTPException(code, msg) == [kind |-> "HTTPException", status |-> code, detail |-> msg, payload |-> NoneObj]
RequestException == [kind |-> "RequestException", status |-> 0, detail |-> "", payload |-> NoneObj]
Returned(value) == [kind |-> "return", status |-> 0, detail |-> "", payload |-> value]
NoRaise == [kind |-> "none", status |-> 0, detail |-> "", payload |-> NoneObj]
Pending == [kind |-> "pending", status |-> 0, detail |-> "", payload |-> NoneObj]

InvalidToken == HTTPException(401, "Invalid token")
TokenExpired == HTTPException(401, "Token expired")

\* ------------------------------------------------------------ variables
VARIABLES
  DISCOVERY_CACHE,  \* [data, timestamp] of _DISCOVERY_CACHE
  JWKS_CACHE,       \* [data, timestamp] of _JWKS_CACHE
  env,              \* the environment settings read through os.getenv
  now,              \* time.time()
  pc,               \* position of the verify_sso_token call
  token,            \* argument of the call
  discovery,        \* local `discovery` of verify_sso_token (line 96)
  jwks,             \* local `jwks` of verify_sso_token (line 98)
  jwk,              \* local `jwk` of verify_sso_token (line 110)
  outcome,          \* what the call returned or raised
  fetches,          \* origin fetches issued by the call, per cache
  fetched,          \* content of the last successful origin fetch of the call, per cache
  written,          \* whether the call stored an entry (lines 55-56, 82-83), per cache
  failed,           \* whether an origin fetch of the call raised, per cache
  pre,              \* state of the two entries when the call started
  started,          \* clock when the call started (kept under SpecSeq)
  prev,             \* the previous call: its fetches and its start (kept under SpecSeq)
  request,          \* the inbound request of require_sso_auth (kept under SpecAuth)
  response,         \* what the token endpoint answered (kept under SpecExchange)
  callers,          \* the concurrent callers of _get_discovery (kept under SpecConc)
  data_written_at   \* the `now` of the call whose data the discovery entry holds
                    \* (kept under SpecConc)

vars == <<DISCOVERY_CACHE, JWKS_CACHE, env, now, pc, token, discovery, jwks, jwk,
          outcome, fetches, fetched, written, failed, pre, started, prev,
          request, response, callers, data_written_at>>

\* What the calls of verify_sso_token leave alone.
aside == <<request, response, callers, data_written_at>>

EmptyCache == [data |-> NoneObj, timestamp |-> 0]

Envs == [discovery_url : {"", "url"},
         client_id : {"", "cid"},
         discovery_ttl : 0..MaxTTL,
         jwks_ttl : 0..MaxTTL]

NoFetches == [discovery |-> 0, jwks |-> 0]
NoFetched == [discovery |-> NoneObj, jwks |-> NoneObj]
NoWritten == [discovery |-> FALSE, jwks |-> FALSE]
NoFailed == [discovery |-> FALSE, jwks |-> FALSE]

\* What a caller finds in a cache at clock t: whether an entry exists, whether
\* its data is non-empty, and whether it is within its TTL (data model of the
\* cache entry: valid for use iff now - fetched_at < ttl).
EntryState(cache, t, ttl) ==
  [exists |-> cache.data # NoneObj,
   nonempty |-> Truthy(cache.data),
   in_ttl |-> cache.data # NoneObj /\ (t - cache.timestamp) < ttl]

NoEntry == [exists |-> FALSE, nonempty |-> FALSE, in_ttl |-> FALSE]
NoPre == [discovery |-> NoEntry, jwks |-> NoEntry]
NoPrev == [called |-> FALSE, fetches |-> NoFetches, started |-> 0, empty |-> FALSE,
           failed |-> NoFailed]

\* No request is being served.
NoRequest == [served |-> FALSE, has_header |-> FALSE, authorization |-> <<>>,
              token |-> <<>>]

\* The callers of _get_discovery that run concurrently, and a caller that is
\* not in a call.
Callers == {"c1", "c2"}
Idle == [pc |-> "idle", now |-> 0, cached |-> NoneObj, cached_at |-> 0,
         discovery |-> NoneObj, result |-> Pending,
         cached_written_at |-> 0,   \* the `now` of the call that wrote `cached`
         missed |-> FALSE,          \* the test of line 52 failed
         fetches |-> 0,             \* origin fetches issued by the call
         fetched |-> NoneObj]       \* what the origin answered to the call

Init ==
  /\ DISCOVERY_CACHE = EmptyCache
  /\ JWKS_CACHE = EmptyCache
  /\ env \in Envs
  /\ now = 0
  /\ pc = "idle"
  /\ token = NoToken
  /\ discovery = NoneObj
  /\ jwks = NoneObj
  /\ jwk = NoneObj
  /\ outcome = Pending
  /\ fetches = NoFetches
  /\ fetched = NoFetched
  /\ written = NoWritten
  /\ failed = NoFailed
  /\ pre = NoPre
  /\ started = 0
  /\ prev = NoPrev
  /\ request = NoRequest
  /\ response = NoneObj
  /\ callers = [c \in Callers |-> Idle]
  /\ data_written_at = 0

\* ------------------------------------------------------- cached getters
\* Faulty variant of fetch_discovery: a failed request is tried a second time
\* before the failure is raised.
fetch_discovery_Retry(e, resp) ==
  IF e.discovery_url = ""
    THEN [raised |-> HTTPException(500, "SYNOLOGY_OIDC_DISCOVERY_URL is not configured"),
          value |-> NoneObj, issued |-> 0]
    ELSE IF resp = Fail
      THEN [raised |-> RequestException, value |-> NoneObj, issued |-> 2]
      ELSE [raised |-> NoRaise, value |-> resp, issued |-> 1]

\* _fetch_discovery (lines 39-44): the configured URL is required before any
\* request is made; a failing request raises out of requests.get or
\* raise_for_status.
fetch_discovery(e, resp) ==
  IF e.discovery_url = ""
    THEN [raised |-> HTTPException(500, "SYNOLOGY_OIDC_DISCOVERY_URL is not configured"),
          value |-> NoneObj, issued |-> 0]
    ELSE IF resp = Fail
      THEN [raised |-> RequestException, value |-> NoneObj, issued |-> 1]
      ELSE [raised |-> NoRaise, value |-> resp, issued |-> 1]

\* Faulty variant of get_discovery: a failed refresh stamps the entry it leaves
\* in place, so that the old data is served for another TTL.
get_discovery_StampOnFailure(cache, t, e, resp, delay) ==
  IF Truthy(cache.data) /\ (t - cache.timestamp) < e.discovery_ttl
    THEN [raised |-> NoRaise, value |-> cache.data, cache |-> cache,
          now |-> t, issued |-> 0, stored |-> NoneObj]
    ELSE LET f == fetch_discovery(e, resp)
             t2 == IF f.issued = 1 THEN t + delay ELSE t
         IN IF f.raised # NoRaise
              THEN [raised |-> f.raised, value |-> NoneObj,
                    cache |-> [data |-> cache.data, timestamp |-> t],
                    now |-> t2, issued |-> f.issued, stored |-> NoneObj]
              ELSE [raised |-> NoRaise, value |-> f.value,
                    cache |-> [data |-> f.value, timestamp |-> t],
                    now |-> t2, issued |-> 1, stored |-> f.value]

\* Faulty variant of CacheHit: an entry whose age equals the TTL is still served.
CacheHit_Inclusive(cache, t, ttl) == Truthy(cache.data) /\ (t - cache.timestamp) <= ttl

\* The hit test of lines 52 and 72.
CacheHit(cache, t, ttl) == Truthy(cache.data) /\ (t - cache.timestamp) < ttl

\* _get_discovery (lines 47-57), called at clock t; the origin answers resp
\* after delay seconds.  The result carries the cache and the clock after
\* the call, the number of origin fetches issued and what was stored.
get_discovery(cache, t, e, resp, delay) ==
  IF CacheHit(cache, t, e.discovery_ttl)
    THEN [raised |-> NoRaise, value |-> cache.data, cache |-> cache,
          now |-> t, issued |-> 0, stored |-> NoneObj]
    ELSE LET f == fetch_discovery(e, resp)
             t2 == IF f.issued = 1 THEN t + delay ELSE t
         IN IF f.raised # NoRaise
              THEN [raised |-> f.raised, value |-> NoneObj, cache |-> cache,
                    now |-> t2, issued |-> f.issued, stored |-> NoneObj]
              ELSE [raised |-> NoRaise, value |-> f.value,
                    cache |-> [data |-> f.value, timestamp |-> t],
                    now |-> t2, issued |-> 1, stored |-> f.value]

\* _fetch_jwks (lines 60-64).
fetch_jwks(resp) ==
  IF resp = Fail
    THEN [raised |-> RequestException, value |-> NoneObj, issued |-> 1]
    ELSE [raised |-> NoRaise, value |-> resp, issued |-> 1]

\* Faulty variant of get_jwks: the key-set location is not required; a document
\* without jwks_uri leads to a key-set fetch all the same.
get_jwks_NoUriCheck(jcache, dcache, t, e, dresp, ddelay, jresp, jdelay) ==
  IF CacheHit(jcache, t, e.jwks_ttl)
    THEN [raised |-> NoRaise, value |-> jcache.data, now |-> t,
          d |-> [cache |-> dcache, issued |-> 0, stored |-> NoneObj, failed |-> FALSE],
          j |-> [cache |-> jcache, issued |-> 0, stored |-> NoneObj, failed |-> FALSE]]
    ELSE LET d == get_discovery(dcache, t, e, dresp, ddelay)
             dpart == [cache |-> d.cache, issued |-> d.issued, stored |-> d.stored,
                       failed |-> d.raised = RequestException]
             f == fetch_jwks(jresp)
         IN IF d.raised # NoRaise
              THEN [raised |-> d.raised, value |-> NoneObj, now |-> d.now, d |-> dpart,
                    j |-> [cache |-> jcache, issued |-> 0, stored |-> NoneObj,
                           failed |-> FALSE]]
              ELSE IF f.raised # NoRaise
                THEN [raised |-> f.raised, value |-> NoneObj, now |-> d.now + jdelay,
                      d |-> dpart,
                      j |-> [cache |-> jcache, issued |-> 1, stored |-> NoneObj,
                             failed |-> TRUE]]
                ELSE [raised |-> NoRaise, value |-> f.value, now |-> d.now + jdelay,
                      d |-> dpart,
                      j |-> [cache |-> [data |-> f.value, timestamp |-> t],
                             issued |-> 1, stored |-> f.value, failed |-> FALSE]]

\* Faulty variant of get_jwks: when the key-set fetch fails, the discovery
\* entry written on the way is put back as it was.
get_jwks_RollsBack(jcache, dcache, t, e, dresp, ddelay, jresp, jdelay) ==
  IF CacheHit(jcache, t, e.jwks_ttl)
    THEN [raised |-> NoRaise, value |-> jcache.data, now |-> t,
          d |-> [cache |-> dcache, issued |-> 0, stored |-> NoneObj, failed |-> FALSE],
          j |-> [cache |-> jcache, issued |-> 0, stored |-> NoneObj, failed |-> FALSE]]
    ELSE LET d == get_discovery(dcache, t, e, dresp, ddelay)
             dpart == [cache |-> d.cache, issued |-> d.issued, stored |-> d.stored,
                       failed |-> d.raised = RequestException]
             untouched == [cache |-> jcache, issued |-> 0, stored |-> NoneObj, failed |-> FALSE]
         IN IF d.raised # NoRaise
              THEN [raised |-> d.raised, value |-> NoneObj, now |-> d.now,
                    d |-> dpart, j |-> untouched]
              ELSE IF Get(d.value, "jwks_uri") = None
                THEN [raised |-> HTTPException(500, "jwks_uri is missing from discovery document"),
                      value |-> NoneObj, now |-> d.now, d |-> dpart, j |-> untouched]
                ELSE LET f == fetch_jwks(jresp)
                     IN IF f.raised # NoRaise
                          THEN [raised |-> f.raised, value |-> NoneObj, now |-> d.now + jdelay,
                                d |-> [dpart EXCEPT !.cache = dcache],
                                j |-> [cache |-> jcache, issued |-> 1, stored |-> NoneObj,
                                       failed |-> TRUE]]
                          ELSE [raised |-> NoRaise, value |-> f.value, now |-> d.now + jdelay,
                                d |-> dpart,
                                j |-> [cache |-> [data |-> f.value, timestamp |-> t],
                                       issued |-> 1, stored |-> f.value, failed |-> FALSE]]

\* _get_jwks (lines 67-84), called at clock t.  On a miss it calls
\* _get_discovery (origin answer dresp after ddelay) and then fetches the
\* key set (origin answer jresp after jdelay).  d and j are the two parts of
\* the result: what happened to the discovery cache and to the key-set cache.
get_jwks(jcache, dcache, t, e, dresp, ddelay, jresp, jdelay) ==
  IF CacheHit(jcache, t, e.jwks_ttl)
    THEN [raised |-> NoRaise, value |-> jcache.data, now |-> t,
          d |-> [cache |-> dcache, issued |-> 0, stored |-> NoneObj, failed |-> FALSE],
          j |-> [cache |-> jcache, issued |-> 0, stored |-> NoneObj, failed |-> FALSE]]
    ELSE LET d == get_discovery(dcache, t, e, dresp, ddelay)
             dpart == [cache |-> d.cache, issued |-> d.issued, stored |-> d.stored,
                       failed |-> d.raised = RequestException]
             untouched == [cache |-> jcache, issued |-> 0, stored |-> NoneObj, failed |-> FALSE]
         IN IF d.raised # NoRaise
              THEN [raised |-> d.raised, value |-> NoneObj, now |-> d.now,
                    d |-> dpart, j |-> untouched]
              ELSE IF Get(d.value, "jwks_uri") = None
                THEN [raised |-> HTTPException(500, "jwks_uri is missing from discovery document"),
                      value |-> NoneObj, now |-> d.now, d |-> dpart, j |-> untouched]
                ELSE LET f == fetch_jwks(jresp)
                     IN IF f.raised # NoRaise
                          THEN [raised |-> f.raised, value |-> NoneObj, now |-> d.now + jdelay,
                                d |-> dpart,
                                j |-> [cache |-> jcache, issued |-> 1, stored |-> NoneObj,
                                       failed |-> TRUE]]
                          ELSE [raised |-> NoRaise, value |-> f.value, now |-> d.now + jdelay,
                                d |-> dpart,
                                j |-> [cache |-> [data |-> f.value, timestamp |-> t],
                                       issued |-> 1, stored |-> f.value, failed |-> FALSE]]

\* ------------------------------------------------------------ key lookup
RECURSIVE find_jwk_from(_, _, _)
find_jwk_from(kid, keys, i) ==
  IF i > Len(keys) THEN NoneObj
  ELSE IF keys[i].kid = kid THEN keys[i]
  ELSE find_jwk_from(kid, keys, i + 1)

RECURSIVE find_jwk_last_from(_, _, _)
find_jwk_last_from(kid, keys, i) ==
  IF i < 1 THEN NoneObj
  ELSE IF keys[i].kid = kid THEN keys[i]
  ELSE find_jwk_last_from(kid, keys, i - 1)

\* Faulty variant of find_jwk: the last matching record wins.
find_jwk_Last(kid, keyset) ==
  LET keys == IF keyset = EmptyObj THEN <<>> ELSE keyset.keys
  IN find_jwk_last_from(kid, keys, Len(keys))

\* Faulty variant of find_jwk: only the first record of the key set is looked at.
find_jwk_HeadOnly(kid, keyset) ==
  LET keys == IF keyset = EmptyObj THEN <<>> ELSE keyset.keys
  IN IF Len(keys) > 0 /\ keys[1].kid = kid THEN keys[1] ELSE NoneObj

\* _find_jwk (lines 87-92): the first record, in sequence order, whose kid
\* equals the token's; None when there is none.
find_jwk(kid, keyset) ==
  LET keys == IF keyset = EmptyObj THEN <<>> ELSE keyset.keys
  IN find_jwk_from(kid, keys, 1)

\* ------------------------------------------------------ token validation
\* Faulty variant of jwt_decode: the audience is checked before the expiry.
jwt_decode_AudienceFirst(tok, public_key, audience, issuer, t) ==
  IF tok.signed_by # public_key THEN InvalidToken
  ELSE IF tok.payload.aud # audience THEN InvalidToken
  ELSE IF tok.payload.exp <= t THEN TokenExpired
  ELSE IF issuer # None /\ tok.payload.iss # issuer THEN InvalidToken
  ELSE Returned(tok.payload)

\* Faulty variant of jwt_decode: the signature is not verified.
jwt_decode_NoSignature(tok, public_key, audience, issuer, t) ==
  IF tok.payload.exp <= t THEN TokenExpired
  ELSE IF issuer # None /\ tok.payload.iss # issuer THEN InvalidToken
  ELSE IF tok.payload.aud # audience THEN InvalidToken
  ELSE Returned(tok.payload)

\* Faulty variant of jwt_decode: the audience is not verified.
jwt_decode_NoAudience(tok, public_key, audience, issuer, t) ==
  IF tok.signed_by # public_key THEN InvalidToken
  ELSE IF tok.payload.exp <= t THEN TokenExpired
  ELSE IF issuer # None /\ tok.payload.iss # issuer THEN InvalidToken
  ELSE Returned(tok.payload)

\* jwt.decode (lines 128-134) and the handlers of lines 136-140: the
\* signature is verified first, then exp, then iss (skipped when the
\* expected issuer is None) and aud.
jwt_decode(tok, public_key, audience, issuer, t) ==
  IF tok.signed_by # public_key THEN InvalidToken
  ELSE IF tok.payload.exp <= t THEN TokenExpired
  ELSE IF issuer # None /\ tok.payload.iss # issuer THEN InvalidToken
  ELSE IF tok.payload.aud # audience THEN InvalidToken
  ELSE Returned(tok.payload)

\* Faulty variant of validate_token: a missing kid is reported as such.
validate_token_KidMessage(tok, issuer, keyset, e, t) ==
  IF tok.header = "malformed" THEN InvalidToken
  ELSE IF tok.kid = None THEN HTTPException(401, "Missing kid")
  ELSE LET key == find_jwk(tok.kid, keyset)
       IN IF key = NoneObj THEN InvalidToken
          ELSE IF key.material = "bad" THEN InvalidToken
          ELSE IF e.client_id = ""
            THEN HTTPException(500, "SYNOLOGY_CLIENT_ID is not configured")
          ELSE jwt_decode(tok, key.material, e.client_id, issuer, t)

\* Faulty variant of validate_token: the client identifier is required before
\* the header is looked at.
validate_token_ClientIdFirst(tok, issuer, keyset, e, t) ==
  IF e.client_id = ""
    THEN HTTPException(500, "SYNOLOGY_CLIENT_ID is not configured")
  ELSE IF tok.header = "malformed" THEN InvalidToken
  ELSE IF tok.kid = None THEN InvalidToken
  ELSE LET key == find_jwk(tok.kid, keyset)
       IN IF key = NoneObj THEN InvalidToken
          ELSE IF key.material = "bad" THEN InvalidToken
          ELSE jwt_decode(tok, key.material, e.client_id, issuer, t)

\* Lines 100-140 of verify_sso_token, run at clock t with the issuer and the
\* key set obtained in lines 96-98.
validate_token(tok, issuer, keyset, e, t) ==
  IF tok.header = "malformed" THEN InvalidToken
  ELSE IF tok.kid = None THEN InvalidToken
  ELSE LET key == find_jwk(tok.kid, keyset)
       IN IF key = NoneObj THEN InvalidToken
          ELSE IF key.material = "bad" THEN InvalidToken
          ELSE IF e.client_id = ""
            THEN HTTPException(500, "SYNOLOGY_CLIENT_ID is not configured")
          ELSE jwt_decode(tok, key.material, e.client_id, issuer, t)

\* -------------------------------------------------------------- actions
Delays == 0..MaxFetchDelay

\* The origin answers a call can consume: none when the call issues no fetch
\* (the unused answer is fixed to Fail after 0 seconds).
DiscoveryAnswers(consumed) == IF consumed THEN DiscoveryResponses ELSE {Fail}
JwksAnswers(consumed) == IF consumed THEN JwksResponses ELSE {Fail}
AnswerDelays(consumed) == IF consumed THEN Delays ELSE {0}

\* verify_sso_token is called, by a caller at position `at`, with a token of
\* toks; lines 96-97.  The start of the call is remembered as clock.
CallAt(at, toks, clock) ==
  /\ pc = at
  /\ LET consumed == get_discovery(DISCOVERY_CACHE, now, env, Fail, 0).issued = 1
     IN \E resp \in DiscoveryAnswers(consumed), delay \in AnswerDelays(consumed) :
          \E d \in {get_discovery(DISCOVERY_CACHE, now, env, resp, delay)} :
             /\ d.now <= MaxTime
             /\ DISCOVERY_CACHE' = d.cache
             /\ now' = d.now
             /\ fetches' = [discovery |-> d.issued, jwks |-> 0]
             /\ fetched' = [discovery |-> d.stored, jwks |-> NoneObj]
             /\ written' = [discovery |-> d.stored # NoneObj, jwks |-> FALSE]
             /\ failed' = [discovery |-> d.raised = RequestException, jwks |-> FALSE]
             /\ IF d.raised # NoRaise
                  THEN /\ pc' = "done"
                       /\ outcome' = d.raised
                       /\ discovery' = NoneObj
                  ELSE /\ pc' = "jwks"
                       /\ outcome' = Pending
                       /\ discovery' = d.value
  /\ token' \in toks
  /\ started' = clock
  /\ pre' = [discovery |-> EntryState(DISCOVERY_CACHE, now, env.discovery_ttl),
             jwks |-> EntryState(JWKS_CACHE, now, env.jwks_ttl)]
  /\ jwks' = NoneObj
  /\ UNCHANGED <<JWKS_CACHE, env, jwk, prev, aside>>

Call(toks, clock) == CallAt("idle", toks, clock)

VerifyGetDiscovery == Call(Tokens, 0)

\* verify_sso_token, line 98.
VerifyGetJwks ==
  /\ pc = "jwks"
  /\ LET dconsumed == get_jwks(JWKS_CACHE, DISCOVERY_CACHE, now, env,
                               Fail, 0, Fail, 0).d.issued = 1
     IN \E dresp \in DiscoveryAnswers(dconsumed), ddelay \in AnswerDelays(dconsumed) :
          LET jconsumed == get_jwks(JWKS_CACHE, DISCOVERY_CACHE, now, env,
                                    dresp, ddelay, Fail, 0).j.issued = 1
          IN \E jresp \in JwksAnswers(jconsumed), jdelay \in AnswerDelays(jconsumed) :
               \E r \in {get_jwks(JWKS_CACHE, DISCOVERY_CACHE, now, env,
                                 dresp, ddelay, jresp, jdelay)} :
                  /\ r.now <= MaxTime
                  /\ JWKS_CACHE' = r.j.cache
                  /\ DISCOVERY_CACHE' = r.d.cache
                  /\ now' = r.now
                  /\ fetches' = [discovery |-> fetches.discovery + r.d.issued,
                                 jwks |-> r.j.issued]
                  /\ fetched' = [discovery |-> IF r.d.stored # NoneObj THEN r.d.stored
                                               ELSE fetched.discovery,
                                 jwks |-> r.j.stored]
                  /\ written' = [discovery |-> written.discovery \/ r.d.stored # NoneObj,
                                 jwks |-> r.j.stored # NoneObj]
                  /\ failed' = [discovery |-> r.d.failed, jwks |-> r.j.failed]
                  /\ IF r.raised # NoRaise
                       THEN /\ pc' = "done"
                            /\ outcome' = r.raised
                            /\ jwks' = NoneObj
                       ELSE /\ pc' = "token"
                            /\ outcome' = Pending
                            /\ jwks' = r.value
  /\ UNCHANGED <<env, token, discovery, jwk, pre, started, prev, aside>>

\* verify_sso_token, lines 100-140.
VerifyToken ==
  /\ pc = "token"
  /\ jwk' = IF token.header = "malformed" \/ token.kid = None
              THEN NoneObj                        \* line 110 is not reached
              ELSE find_jwk(token.kid, jwks)
  /\ outcome' = validate_token(token, Get(discovery, "issuer"), jwks, env, now)
  /\ pc' = "done"
  /\ UNCHANGED <<DISCOVERY_CACHE, JWKS_CACHE, env, now, token, discovery, jwks,
                 fetches, fetched, written, failed, pre, started, prev, aside>>

\* The call has returned or raised; the caller goes on, remembering in prev
\* what it is given to remember of the call.
Finish(remembered) ==
  /\ pc = "done"
  /\ pc' = "idle"
  /\ prev' = remembered
  /\ token' = NoToken
  /\ discovery' = NoneObj
  /\ jwks' = NoneObj
  /\ jwk' = NoneObj
  /\ outcome' = Pending
  /\ fetches' = NoFetches
  /\ fetched' = NoFetched
  /\ written' = NoWritten
  /\ failed' = NoFailed
  /\ pre' = NoPre
  /\ started' = 0
  /\ request' = NoRequest
  /\ response' = NoneObj
  /\ UNCHANGED <<DISCOVERY_CACHE, JWKS_CACHE, env, now, callers, data_written_at>>

Return == Finish(NoPrev)

\* Time passes between calls.
Tick ==
  /\ pc = "idle"
  /\ now < MaxTime
  /\ now' = now + 1
  /\ UNCHANGED <<DISCOVERY_CACHE, JWKS_CACHE, env, pc, token, discovery, jwks, jwk,
                 outcome, fetches, fetched, written, failed, pre, started, prev, aside>>

Next ==
  \/ VerifyGetDiscovery
  \/ VerifyGetJwks
  \/ VerifyToken
  \/ Return
  \/ Tick

Spec == Init /\ [][Next]_vars

\* A call that has been entered runs on: the interpreter executes the body of
\* verify_sso_token to its end, and an origin fetch returns or fails
\* (requests.get with timeout=10, lines 42 and 62).  Nothing obliges a caller
\* to make or to acknowledge a call, nor the clock to advance.
\* The calls are made with one token for each way through lines 100-140 that
\* the header decides (malformed, no kid, kid present) and with an expired and
\* an unexpired payload, and the TTLs are zero or MaxTTL.
LiveTokens == {MalformedToken, NoKidToken,
               Token("ok", "k1", Payload(0, "cid", "issA"), "m1"),
               Token("ok", "k1", Payload(MaxTime + 1, "cid", "issA"), "m1")}

LiveVerifyGetDiscovery == Call(LiveTokens, 0)

InitLive ==
  Init /\ env.discovery_ttl \in {0, MaxTTL} /\ env.jwks_ttl \in {0, MaxTTL}

NextLive ==
  \/ LiveVerifyGetDiscovery
  \/ VerifyGetJwks
  \/ VerifyToken
  \/ Return
  \/ Tick

SpecLive ==
  InitLive /\ [][NextLive]_vars /\ WF_vars(VerifyGetJwks) /\ WF_vars(VerifyToken)

\* ------------------------------------------------- pairs of sequential calls
\* The same calls, with the start and the origin fetches of each call
\* remembered for the next one.  The fetches of a call do not depend on its token (lines 96-98
\* do not read it), so two tokens stand for all.
SeqTokens == {MalformedToken, Token("ok", "k1", Payload(MaxTime + 1, "cid", "issA"), "m1")}

SeqVerifyGetDiscovery == Call(SeqTokens, now)

\* An origin fetch of the call returned the empty object: the document of
\* line 96 (an empty document is never served from the cache), or the last
\* document or key set fetched.
FetchedEmpty ==
  discovery = EmptyObj \/ fetched.discovery = EmptyObj \/ fetched.jwks = EmptyObj

SeqReturn == Finish([called |-> TRUE, fetches |-> fetches, started |-> started,
                     empty |-> FetchedEmpty, failed |-> failed])

NextSeq ==
  \/ SeqVerifyGetDiscovery
  \/ VerifyGetJwks
  \/ VerifyToken
  \/ SeqReturn
  \/ Tick

SpecSeq == Init /\ [][NextSeq]_vars

\* ------------------------------------------------ exchange_authorization_code
\* A string value returned to the caller.
Str(chars) == [str |-> chars]

\* The JSON body of the token endpoint's answer: with an access_token, with
\* an error and no access_token, or empty.
TokenData(access_token, error) == [access_token |-> access_token, error |-> error]
TokenResponses ==
  {TokenData("jwt", None), TokenData(None, "invalid_grant"), EmptyObj, Fail}

TokenEndpointError == HTTPException(500, "token_endpoint is missing from discovery document")
NoAccessToken == HTTPException(401, "Failed to obtain access token from OAuth provider")
ExchangeFailed == HTTPException(401, "Token exchange failed")

\* exchange_authorization_code is called; line 171.
ExchangeGetDiscovery ==
  /\ pc = "idle"
  /\ LET consumed == get_discovery(DISCOVERY_CACHE, now, env, Fail, 0).issued = 1
     IN \E resp \in DiscoveryAnswers(consumed), delay \in AnswerDelays(consumed) :
          \E d \in {get_discovery(DISCOVERY_CACHE, now, env, resp, delay)} :
             /\ d.now <= MaxTime
             /\ DISCOVERY_CACHE' = d.cache
             /\ now' = d.now
             /\ fetches' = [discovery |-> d.issued, jwks |-> 0]
             /\ fetched' = [discovery |-> d.stored, jwks |-> NoneObj]
             /\ written' = [discovery |-> d.stored # NoneObj, jwks |-> FALSE]
             /\ failed' = [discovery |-> d.raised = RequestException, jwks |-> FALSE]
             /\ IF d.raised # NoRaise
                  THEN /\ pc' = "done"
                       /\ outcome' = d.raised
                       /\ discovery' = NoneObj
                  ELSE /\ pc' = "exchange"
                       /\ outcome' = Pending
                       /\ discovery' = d.value
  /\ pre' = [discovery |-> EntryState(DISCOVERY_CACHE, now, env.discovery_ttl),
             jwks |-> EntryState(JWKS_CACHE, now, env.jwks_ttl)]
  /\ response' = NoneObj
  /\ UNCHANGED <<JWKS_CACHE, env, token, jwks, jwk, started, prev, request, callers,
                 data_written_at>>

\* exchange_authorization_code, lines 172-225: the token endpoint and the
\* client identifier are required, then the code is posted to the token
\* endpoint, which answers after a delay.
ExchangePost ==
  /\ pc = "exchange"
  /\ pc' = "done"
  /\ IF Get(discovery, "token_endpoint") = None
       THEN /\ outcome' = TokenEndpointError
            /\ UNCHANGED <<response, now>>
       ELSE IF env.client_id = ""
         THEN /\ outcome' = HTTPException(500, "SYNOLOGY_CLIENT_ID is not configured")
              /\ UNCHANGED <<response, now>>
         ELSE \E answer \in TokenResponses, delay \in Delays :
                /\ now + delay <= MaxTime
                /\ now' = now + delay
                /\ response' = answer
                /\ outcome' = IF answer = Fail THEN ExchangeFailed
                              ELSE IF Get(answer, "access_token") = None THEN NoAccessToken
                              ELSE Returned(Str(answer.access_token))
  /\ UNCHANGED <<DISCOVERY_CACHE, JWKS_CACHE, env, token, discovery, jwks, jwk,
                 fetches, fetched, written, failed, pre, started, prev, request,
                 callers, data_written_at>>

NextExchange ==
  \/ ExchangeGetDiscovery
  \/ ExchangePost
  \/ Return
  \/ Tick

SpecExchange == Init /\ [][NextExchange]_vars

\* ------------------------------------------------------------ require_sso_auth
\* Header values and tokens on the wire are sequences of characters.
BearerPrefix == <<"b", "e", "a", "r", "e", "r", " ">>
Whitespace == {" ", "\t"}

\* str.lower(), on the characters that occur.
LowerChar(c) ==
  CASE c = "B" -> "b" [] c = "E" -> "e" [] c = "A" -> "a" [] c = "R" -> "r"
    [] c = "T" -> "t" [] c = "O" -> "o" [] c = "K" -> "k" [] c = "N" -> "n"
    [] OTHER -> c
Lower(chars) == [i \in 1..Len(chars) |-> LowerChar(chars[i])]

\* str.startswith(prefix).
StartsWith(chars, prefix) ==
  Len(chars) >= Len(prefix) /\ SubSeq(chars, 1, Len(prefix)) = prefix

\* str.split(" ", 1)[1]: what follows the first space.
RECURSIVE AfterFirstSpace(_)
AfterFirstSpace(chars) ==
  IF chars = <<>> THEN <<>>
  ELSE IF Head(chars) = " " THEN Tail(chars)
  ELSE AfterFirstSpace(Tail(chars))

\* str.strip(): leading and trailing whitespace removed.
RECURSIVE LStrip(_)
LStrip(chars) ==
  IF chars # <<>> /\ Head(chars) \in Whitespace THEN LStrip(Tail(chars)) ELSE chars
RECURSIVE RStrip(_)
RStrip(chars) ==
  IF chars # <<>> /\ chars[Len(chars)] \in Whitespace
    THEN RStrip(SubSeq(chars, 1, Len(chars) - 1)) ELSE chars
Strip(chars) == RStrip(LStrip(chars))

MissingToken == HTTPException(401, "Missing token")

\* Faulty variant of extract_bearer_token: the scheme is compared as written.
extract_bearer_token_CaseSensitive(req) ==
  LET auth_header == IF req.has_header THEN req.authorization ELSE <<>>
  IN IF ~StartsWith(auth_header, <<"B", "e", "a", "r", "e", "r", " ">>)
       THEN [raised |-> MissingToken, value |-> <<>>]
       ELSE [raised |-> NoRaise, value |-> Strip(AfterFirstSpace(auth_header))]

\* _extract_bearer_token (lines 143-147).
extract_bearer_token(req) ==
  LET auth_header == IF req.has_header THEN req.authorization ELSE <<>>
  IN IF ~StartsWith(Lower(auth_header), BearerPrefix)
       THEN [raised |-> MissingToken, value |-> <<>>]
       ELSE [raised |-> NoRaise, value |-> Strip(AfterFirstSpace(auth_header))]

\* The authorization headers of the requests: a scheme part followed by at
\* most MaxHeaderRest characters.
Schemes ==
  {<<"B", "e", "a", "r", "e", "r", " ">>, <<"b", "e", "a", "r", "e", "r", " ">>,
   <<"B", "E", "A", "R", "E", "R", " ">>, <<"B", "e", "a", "r", "e", "r">>,
   <<"B", "e", "a", "r", "e", "r", "\t">>, <<" ", "B", "e", "a", "r", "e", "r", " ">>,
   <<"T", "o", "k", "e", "n", " ">>, <<>>}
RestChars == {"a", " ", "\t"}
Rests == UNION {[1..n -> RestChars] : n \in 0..MaxHeaderRest}
Headers == {scheme \o rest : scheme \in Schemes, rest \in Rests}
Requests ==
  {[served |-> TRUE, has_header |-> FALSE, authorization |-> <<>>, token |-> <<>>]}
  \cup {[served |-> TRUE, has_header |-> TRUE, authorization |-> h, token |-> <<>>] :
          h \in Headers}

\* jwt.get_unverified_header (line 101) on the characters of a bearer value:
\* none of these values has the three dot-separated segments of a JWT.
JwtOf(chars) == MalformedToken

\* require_sso_auth is called with a request; line 158.
RequireSsoAuth ==
  /\ pc = "idle"
  /\ \E req \in Requests :
       \E x \in {extract_bearer_token(req)} :
          IF x.raised # NoRaise
            THEN /\ pc' = "done"
                 /\ outcome' = x.raised
                 /\ request' = req
            ELSE /\ pc' = "auth"
                 /\ outcome' = Pending
                 /\ request' = [req EXCEPT !.token = x.value]
  /\ UNCHANGED <<DISCOVERY_CACHE, JWKS_CACHE, env, now, token, discovery, jwks, jwk,
                 fetches, fetched, written, failed, pre, started, prev,
                 response, callers, data_written_at>>

\* require_sso_auth, line 159: verify_sso_token is entered with the token.
AuthVerifyGetDiscovery == CallAt("auth", {JwtOf(request.token)}, 0)

\* The environments of the requests: the TTLs are the largest ones.
InitAuth == Init /\ env.discovery_ttl = MaxTTL /\ env.jwks_ttl = MaxTTL

NextAuth ==
  \/ RequireSsoAuth
  \/ AuthVerifyGetDiscovery
  \/ VerifyGetJwks
  \/ VerifyToken
  \/ Return
  \/ Tick

SpecAuth == InitAuth /\ [][NextAuth]_vars

\* ------------------------------------------------ concurrent _get_discovery
\* Calls of _get_discovery (lines 47-57) made from several threads: the
\* function takes no lock, so the calls interleave between any two of its
\* statements.  Each statement that reads or writes _DISCOVERY_CACHE is a step
\* of its own, and the clock may advance between any two steps.

\* What _get_discovery leaves alone.
sequential == <<JWKS_CACHE, env, pc, token, discovery, jwks, jwk, outcome, fetches,
                fetched, written, failed, pre, started, prev, request, response>>

\* Faulty variant of returned_discovery: the entry is read again for the value
\* to return.
returned_discovery_FromCache(local, cache) == cache.data

\* The value _get_discovery returns after a refresh (line 57): its local
\* variable, not the entry.
returned_discovery(local, cache) == local

\* Lines 48-49: the caller reads the clock.
GetDiscoveryEnter(c) ==
  /\ callers[c].pc = "idle"
  /\ callers' = [callers EXCEPT ![c].pc = "read_data", ![c].now = now]
  /\ UNCHANGED <<DISCOVERY_CACHE, now, data_written_at, sequential>>

\* Line 50.
GetDiscoveryReadData(c) ==
  /\ callers[c].pc = "read_data"
  /\ callers' = [callers EXCEPT ![c].pc = "read_timestamp",
                                ![c].cached = DISCOVERY_CACHE.data,
                                ![c].cached_written_at = data_written_at]
  /\ UNCHANGED <<DISCOVERY_CACHE, now, data_written_at, sequential>>

\* Lines 51-53: the timestamp is read, and the test is made on the data read
\* at line 50 and the timestamp read now.
GetDiscoveryReadTimestamp(c) ==
  /\ callers[c].pc = "read_timestamp"
  /\ LET cached_at == DISCOVERY_CACHE.timestamp
         seen == [data |-> callers[c].cached, timestamp |-> cached_at]
     IN IF CacheHit(seen, callers[c].now, env.discovery_ttl)
          THEN callers' = [callers EXCEPT ![c].pc = "done",
                                          ![c].cached_at = cached_at,
                                          ![c].result = Returned(callers[c].cached)]
          ELSE callers' = [callers EXCEPT ![c].pc = "fetch",
                                          ![c].cached_at = cached_at,
                                          ![c].missed = TRUE]
  /\ UNCHANGED <<DISCOVERY_CACHE, now, data_written_at, sequential>>

\* Line 54.
GetDiscoveryFetch(c) ==
  /\ callers[c].pc = "fetch"
  /\ \E resp \in DiscoveryResponses :
       \E f \in {fetch_discovery(env, resp)} :
         IF f.raised # NoRaise
           THEN callers' = [callers EXCEPT ![c].pc = "done",
                                           ![c].fetches = f.issued,
                                           ![c].result = f.raised]
           ELSE callers' = [callers EXCEPT ![c].pc = "write_data",
                                           ![c].fetches = f.issued,
                                           ![c].fetched = f.value,
                                           ![c].discovery = f.value]
  /\ UNCHANGED <<DISCOVERY_CACHE, now, data_written_at, sequential>>

\* Line 55.
GetDiscoveryWriteData(c) ==
  /\ callers[c].pc = "write_data"
  /\ DISCOVERY_CACHE' = [DISCOVERY_CACHE EXCEPT !.data = callers[c].discovery]
  /\ data_written_at' = callers[c].now
  /\ callers' = [callers EXCEPT ![c].pc = "write_timestamp"]
  /\ UNCHANGED <<now, sequential>>

\* Lines 56-57.
GetDiscoveryWriteTimestamp(c) ==
  /\ callers[c].pc = "write_timestamp"
  /\ DISCOVERY_CACHE' = [DISCOVERY_CACHE EXCEPT !.timestamp = callers[c].now]
  /\ callers' = [callers EXCEPT
                   ![c].pc = "done",
                   ![c].result = Returned(returned_discovery(callers[c].discovery,
                                                             DISCOVERY_CACHE'))]
  /\ UNCHANGED <<now, data_written_at, sequential>>

\* The call has returned or raised; its thread goes on.
GetDiscoveryExit(c) ==
  /\ callers[c].pc = "done"
  /\ callers' = [callers EXCEPT ![c] = Idle]
  /\ UNCHANGED <<DISCOVERY_CACHE, now, data_written_at, sequential>>

ConcEnter == \E c \in Callers : GetDiscoveryEnter(c)
ConcReadData == \E c \in Callers : GetDiscoveryReadData(c)
ConcReadTimestamp == \E c \in Callers : GetDiscoveryReadTimestamp(c)
ConcFetch == \E c \in Callers : GetDiscoveryFetch(c)
ConcWriteData == \E c \in Callers : GetDiscoveryWriteData(c)
ConcWriteTimestamp == \E c \in Callers : GetDiscoveryWriteTimestamp(c)
ConcExit == \E c \in Callers : GetDiscoveryExit(c)

\* The variables the concurrent calls do not read are fixed.
InitConc == Init /\ env.client_id = "cid" /\ env.jwks_ttl = MaxTTL

NextConc ==
  \/ ConcEnter
  \/ ConcReadData
  \/ ConcReadTimestamp
  \/ ConcFetch
  \/ ConcWriteData
  \/ ConcWriteTimestamp
  \/ ConcExit
  \/ Tick

SpecConc == InitConc /\ [][NextConc]_vars

\* =============================================================== properties
Done == pc = "done"

\* Line 98 has returned: lines 100-140 ran with `discovery` and `jwks`.
KeysResolved == jwks # NoneObj

\* The issuer handed to jwt.decode (line 97).
Issuer == Get(discovery, "issuer")

UrlError == HTTPException(500, "SYNOLOGY_OIDC_DISCOVERY_URL is not configured")
JwksUriError == HTTPException(500, "jwks_uri is missing from discovery document")
ClientIdError == HTTPException(500, "SYNOLOGY_CLIENT_ID is not configured")

\* The entry was usable when the call started: non-empty and within its TTL.
Hit(entry) == entry.nonempty /\ entry.in_ttl

KeysOf(keyset) == IF keyset = EmptyObj THEN <<>> ELSE keyset.keys

\* Record i is the first record of the key set with this kid.
FirstWithKid(keyset, kid, i) ==
  /\ KeysOf(keyset)[i].kid = kid
  /\ \A j \in 1..(i - 1) : KeysOf(keyset)[j].kid # kid

\* The key that signed the token is in the key set under the token's kid.
SignerInKeySet(tok, keyset) ==
  \E i \in 1..Len(KeysOf(keyset)) :
    KeysOf(keyset)[i].kid = tok.kid /\ KeysOf(keyset)[i].material = tok.signed_by

\* The first record with the token's kid holds the key that signed the token.
SignatureVerifies(tok, keyset) ==
  \E i \in 1..Len(KeysOf(keyset)) :
    FirstWithKid(keyset, tok.kid, i) /\ KeysOf(keyset)[i].material = tok.signed_by

\* The first record with the token's kid holds parseable key material.
KeyUsable(tok, keyset) ==
  \E i \in 1..Len(KeysOf(keyset)) :
    FirstWithKid(keyset, tok.kid, i) /\ KeysOf(keyset)[i].material # "bad"

BadHeader(tok) == tok.header = "malformed" \/ tok.kid = None

\* The error with which key resolution (lines 96-98) raises: it is decided by
\* the origin and the configuration alone.
ResolutionError ==
  IF failed.discovery \/ failed.jwks THEN RequestException
  ELSE IF env.discovery_url = "" THEN UrlError
  ELSE JwksUriError

\* ----------------------------------------------------------------------- C1
\* C1: a token whose header is malformed or has no kid is rejected as 401
\* 'Invalid token' without get_discovery or get_keyset having issued an origin
\* fetch or changed a cache.  Stated of the calls in which lines 96-98 return,
\* so that the header is looked at.
C1_NoFetchBeforeHeader ==
  Done /\ KeysResolved /\ BadHeader(token)
    => outcome = InvalidToken /\ fetches = NoFetches /\ written = NoWritten

\* ----------------------------------------------------------------------- C2
\* C2: when the discovery or key-set origin fetch fails, the caller receives
\* the 401 of a bad token.
C2_FetchFailureIs401 ==
  Done /\ (failed.discovery \/ failed.jwks) => outcome = InvalidToken

\* ----------------------------------------------------------------------- C3
\* C3 as stated: a token whose exp is in the past fails as 'Token expired',
\* whatever else is wrong with it.
C3_ExpiredAlwaysReported ==
  Done /\ KeysResolved /\ ~BadHeader(token) /\ env.client_id # ""
       /\ token.payload.exp < now
    => outcome = TokenExpired

\* C3 amended: a token whose exp is in the past never yields claims, and fails
\* as 'Token expired' exactly when it passes the checks made before the expiry
\* check (key resolution returns, the header is well formed with a kid, the
\* first record with that kid verifies the signature, the client identifier
\* is configured), whatever its aud and iss; 'Token expired' is reported for
\* no token that has not expired.
C3_ExpiredAfterSignature ==
  /\ Done /\ token.payload.exp < now
       => /\ outcome.kind # "return"
          /\ (outcome = TokenExpired)
               <=> (KeysResolved /\ ~BadHeader(token)
                    /\ SignatureVerifies(token, jwks) /\ env.client_id # "")
  /\ Done /\ outcome = TokenExpired => token.payload.exp <= now

C3_Witness ==
  /\ Done /\ token.payload.exp < now /\ outcome = TokenExpired
  /\ token.payload.aud # env.client_id /\ token.payload.iss # Issuer

\* ----------------------------------------------------------------------- C4
\* C4 as stated: a token signed by a key that is not in the key set under the
\* token's kid fails as 401 'Invalid token'.
C4_UnknownKeyIs401 ==
  Done /\ KeysResolved /\ ~SignerInKeySet(token, jwks) => outcome = InvalidToken

\* C4 amended: such a token never yields claims; it fails as 401 'Invalid
\* token', also when it has expired, except that with a blank client
\* identifier a token whose kid finds a record with parseable key material
\* ends in the 500 configuration error.
C4_UnknownKeyRejected ==
  Done /\ KeysResolved /\ ~SignerInKeySet(token, jwks)
    => outcome = IF env.client_id = "" /\ KeyUsable(token, jwks)
                   THEN ClientIdError ELSE InvalidToken

C4_Witness ==
  /\ Done /\ KeysResolved /\ ~SignerInKeySet(token, jwks)
  /\ KeyUsable(token, jwks) /\ token.payload.exp < now
  /\ token.payload.aud = env.client_id /\ token.payload.iss = Issuer
  /\ outcome = InvalidToken

\* ----------------------------------------------------------------------- C5
\* C5 as stated: a token with a valid signature whose aud is not the
\* configured client identifier fails as 401 'Invalid token' for every value
\* of its other claims.
C5_AudienceMismatchIs401 ==
  Done /\ KeysResolved /\ SignatureVerifies(token, jwks) /\ env.client_id # ""
       /\ token.payload.aud # env.client_id
    => outcome = InvalidToken

\* C5 amended: such a token never yields claims; it fails as 401 'Invalid
\* token' while its exp lies in the future and as 'Token expired' once the
\* clock has reached its exp (the expiry is checked before the audience), and
\* with a blank client identifier it ends in the 500 configuration error.
C5_AudienceMismatchRejected ==
  Done /\ KeysResolved /\ SignatureVerifies(token, jwks)
       /\ token.payload.aud # env.client_id
    => outcome = IF env.client_id = "" THEN ClientIdError
                 ELSE IF token.payload.exp <= now THEN TokenExpired
                 ELSE InvalidToken

C5_Witness ==
  /\ Done /\ KeysResolved /\ SignatureVerifies(token, jwks)
  /\ env.client_id # "" /\ token.payload.aud # env.client_id
  /\ token.payload.exp > now /\ token.payload.iss = Issuer
  /\ outcome = InvalidToken

\* ----------------------------------------------------------------------- C6
\* C6: claims are returned only if the token's iss equals the issuer of the
\* discovery document, also when the document has no issuer field.
C6_IssuerAlwaysChecked ==
  Done /\ outcome.kind = "return" => token.payload.iss = Issuer

\* ----------------------------------------------------------------------- C7
\* An outcome that is a failure other than 'Token expired'.
FailsNotExpired(o) == o.kind # "return" /\ o # TokenExpired

\* C7 as stated: two tokens that both fail for a reason other than expiry,
\* run from the same cache, configuration and origin state, get the same
\* outcome, 401 'Invalid token'.
C7_SameFailureOutcome ==
  Done /\ KeysResolved /\ FailsNotExpired(outcome)
    => \A other \in Tokens :
         LET o == validate_token(other, Issuer, jwks, env, now)
         IN FailsNotExpired(o) => o = outcome /\ outcome = InvalidToken

\* C7 amended: with the client identifier configured and key resolution
\* returning, the two tokens get the same outcome, 401 'Invalid token'; when
\* key resolution raises, both get that same error, which the origin and the
\* configuration decide; with a blank client identifier a token that passes
\* the header, kid and key checks gets the 500 configuration error and the
\* others get 401 'Invalid token'.
C7_SameFailureOutcomeConfigured ==
  /\ Done /\ KeysResolved /\ env.client_id # "" /\ FailsNotExpired(outcome)
       => \A other \in Tokens :
            LET o == validate_token(other, Issuer, jwks, env, now)
            IN FailsNotExpired(o) => o = outcome /\ outcome = InvalidToken
  /\ Done /\ ~KeysResolved => outcome = ResolutionError
  /\ Done /\ KeysResolved /\ env.client_id = ""
       => outcome = IF ~BadHeader(token) /\ KeyUsable(token, jwks)
                      THEN ClientIdError ELSE InvalidToken

C7_Witness ==
  /\ Done /\ KeysResolved /\ env.client_id # "" /\ outcome = InvalidToken
  /\ token.kid = None /\ token.header = "ok"
  /\ \E other \in Tokens :
       /\ SignatureVerifies(other, jwks) /\ other.payload.exp > now
       /\ other.payload.aud # env.client_id
       /\ validate_token(other, Issuer, jwks, env, now) = InvalidToken

\* ----------------------------------------------------------------------- C8
\* C8 as stated: a token signed with a key present in the key set, with aud
\* the configured client identifier, iss the discovery issuer and exp in the
\* future, is verified and the claims returned are its payload.
C8_RoundTrip ==
  Done /\ KeysResolved /\ ~BadHeader(token) /\ SignerInKeySet(token, jwks)
       /\ token.payload.aud = env.client_id /\ token.payload.iss = Issuer
       /\ token.payload.exp > now
    => outcome = Returned(token.payload)

\* C8 amended: the key must be that of the first record with the token's kid.
\* Whenever get_discovery and get_keyset return (from cold, warm or expired
\* caches), a token signed with the key of the first record with its kid, with
\* aud the configured client identifier, iss the discovery issuer and exp in
\* the future, is verified and the claims returned are its payload.
C8_RoundTripFirstKey ==
  Done /\ KeysResolved /\ ~BadHeader(token) /\ SignatureVerifies(token, jwks)
       /\ token.payload.aud = env.client_id /\ token.payload.iss = Issuer
       /\ token.payload.exp > now
    => outcome = Returned(token.payload)

C8_Witness ==
  /\ Done /\ outcome = Returned(token.payload)
  /\ ~pre.discovery.exists /\ ~pre.jwks.exists
  /\ Len(KeysOf(jwks)) = 2 /\ SignatureVerifies(token, jwks)
  /\ token.payload.iss = Issuer /\ token.payload.aud = env.client_id

\* ----------------------------------------------------------------------- C9
\* The second of two sequential calls: it starts with both entries within
\* their TTL, less than either TTL after the first call started.
SameTtlWindow ==
  /\ Done /\ prev.called
  /\ pre.discovery.in_ttl /\ pre.jwks.in_ttl
  /\ started - prev.started < env.discovery_ttl
  /\ started - prev.started < env.jwks_ttl

\* C9: two sequential calls within the same TTL window of both caches issue
\* at most one origin fetch per cache between them, and the second call
\* issues none.
C9_OneFetchPerWindow ==
  SameTtlWindow
    => /\ fetches = NoFetches
       /\ prev.fetches.discovery + fetches.discovery <= 1
       /\ prev.fetches.jwks + fetches.jwks <= 1

\* C9 holds of the pairs in which the origin returned no empty object: the
\* stored empty object is the one payload that is fetched again.
C9_OneFetchPerWindowNonEmpty ==
  SameTtlWindow /\ ~prev.empty /\ pre.discovery.nonempty /\ pre.jwks.nonempty
    => /\ fetches = NoFetches /\ written = NoWritten
       /\ prev.fetches.discovery <= 1
       /\ prev.fetches.jwks <= 1

C9_NonEmptyWitness ==
  /\ SameTtlWindow /\ ~prev.empty /\ pre.discovery.nonempty /\ pre.jwks.nonempty
  /\ prev.fetches = [discovery |-> 1, jwks |-> 1] /\ fetches = NoFetches

\* ---------------------------------------------------------------------- C10
\* The entry exists and its TTL had elapsed when the call started.
Stale(entry) == entry.exists /\ ~entry.in_ttl

StaleOrAbsent(cache, ttl) ==
  cache.data = NoneObj \/ ~((now - cache.timestamp) < ttl)

\* The step is the call of _get_discovery at line 96, resp. the call of
\* _get_jwks at line 98.
GetDiscoveryStep == pc = "idle" /\ pc' # "idle"
GetJwksStep == pc = "jwks" /\ pc' # "jwks"

\* C11: a get_discovery or get_keyset call whose origin fetch fails leaves
\* that cache's entry (data and timestamp) as it was, and the next call on the
\* entry that is still stale or absent fetches the origin again and returns
\* what it fetched, never the old data.
C11_FailedFetchKeepsEntry ==
  [][/\ GetDiscoveryStep /\ failed'.discovery => DISCOVERY_CACHE' = DISCOVERY_CACHE
     /\ GetJwksStep /\ failed'.discovery => DISCOVERY_CACHE' = DISCOVERY_CACHE
     /\ GetJwksStep /\ failed'.jwks => JWKS_CACHE' = JWKS_CACHE
     /\ GetDiscoveryStep /\ env.discovery_url # ""
          /\ StaleOrAbsent(DISCOVERY_CACHE, env.discovery_ttl)
          => /\ fetches'.discovery = 1
             /\ pc' = "jwks" => /\ discovery' = fetched'.discovery
                                /\ DISCOVERY_CACHE' = [data |-> discovery', timestamp |-> now]
     /\ GetJwksStep /\ StaleOrAbsent(JWKS_CACHE, env.jwks_ttl)
          => /\ outcome' \notin {UrlError, JwksUriError} /\ ~failed'.discovery
                  => fetches'.jwks = 1
             /\ pc' = "token" => /\ jwks' = fetched'.jwks
                                 /\ JWKS_CACHE' = [data |-> jwks', timestamp |-> now]
    ]_vars

\* The previous call failed to refresh a stale discovery entry, which is still
\* in place; this call, on the entry still stale, has fetched the origin again
\* and stored what it fetched.
C11_Witness ==
  /\ prev.called /\ prev.failed.discovery /\ prev.fetches.discovery = 1
  /\ pre.discovery.exists /\ ~pre.discovery.in_ttl
  /\ pc = "jwks" /\ fetches.discovery = 1 /\ discovery = fetched.discovery
  /\ DISCOVERY_CACHE.data = discovery

\* ---------------------------------------------------------------------- C15
\* C15: with a blank client identifier, a token whose header is well formed
\* and whose kid finds a record with parseable key material ends in the 500
\* configuration error, whatever its signature and claims (they are not
\* verified); the 500 is raised for no other token, which fails as 401
\* 'Invalid token' at the header, kid or key check.
C15_BlankClientIdIs500 ==
  /\ Done /\ KeysResolved /\ env.client_id = ""
       => /\ outcome.kind # "return"
          /\ ~BadHeader(token) /\ KeyUsable(token, jwks) => outcome = ClientIdError
          /\ BadHeader(token) \/ ~KeyUsable(token, jwks) => outcome = InvalidToken
  /\ Done /\ outcome = ClientIdError
       => KeysResolved /\ env.client_id = "" /\ ~BadHeader(token) /\ KeyUsable(token, jwks)

\* An expired token with a foreign signature and the wrong audience and issuer
\* has got the 500.
C15_Witness ==
  /\ Done /\ env.client_id = "" /\ outcome = ClientIdError
  /\ ~SignatureVerifies(token, jwks) /\ token.payload.exp < now
  /\ token.payload.aud = "other" /\ token.payload.iss # Issuer

\* ---------------------------------------------------------------------- C16
\* The key-set entry is not served at the clock: absent, empty or stale.
JwksMiss == ~(Truthy(JWKS_CACHE.data) /\ (now - JWKS_CACHE.timestamp) < env.jwks_ttl)

\* C16: on a key-set miss, when the document get_discovery returns to
\* get_keyset has no jwks_uri, get_keyset fails with the 500 configuration
\* error, issues no key-set fetch and leaves the key-set entry as it was; the
\* error is raised in no other case.
C16_MissingJwksUriIs500 ==
  [][/\ GetJwksStep /\ JwksMiss /\ ~failed'.discovery /\ outcome' # UrlError
          /\ Get(DISCOVERY_CACHE'.data, "jwks_uri") = None
          => /\ pc' = "done" /\ outcome' = JwksUriError
             /\ fetches'.jwks = 0 /\ JWKS_CACHE' = JWKS_CACHE
     /\ outcome' = JwksUriError /\ outcome # JwksUriError
          => /\ GetJwksStep /\ JwksMiss
             /\ Get(DISCOVERY_CACHE'.data, "jwks_uri") = None
             /\ fetches'.jwks = 0 /\ JWKS_CACHE' = JWKS_CACHE
    ]_vars

\* The error was raised on a stale key-set entry, which is still in place.
C16_Witness ==
  /\ Done /\ outcome = JwksUriError /\ fetches.jwks = 0
  /\ pre.jwks.exists /\ pre.jwks.nonempty /\ Truthy(JWKS_CACHE.data)
  /\ Truthy(DISCOVERY_CACHE.data)

\* ---------------------------------------------------------------------- C18
\* The entry exists and is within its TTL at the clock.
WithinTtl(cache, ttl) == cache.data # NoneObj /\ (now - cache.timestamp) < ttl

\* C18: once an entry is stored, every get_discovery (resp. get_keyset) call
\* made within its TTL returns the entry's data and performs no origin fetch,
\* whatever the payload stored, the empty object included.
C18_HitForAnyPayload ==
  [][/\ GetDiscoveryStep /\ WithinTtl(DISCOVERY_CACHE, env.discovery_ttl)
          => /\ pc' = "jwks" /\ discovery' = DISCOVERY_CACHE.data
             /\ fetches'.discovery = 0 /\ DISCOVERY_CACHE' = DISCOVERY_CACHE
     /\ GetJwksStep /\ WithinTtl(JWKS_CACHE, env.jwks_ttl)
          => /\ pc' = "token" /\ jwks' = JWKS_CACHE.data
             /\ fetches'.jwks = 0 /\ JWKS_CACHE' = JWKS_CACHE
    ]_vars

\* C18 holds of the entries that store a non-empty payload.
C18_HitForNonEmptyPayload ==
  [][/\ GetDiscoveryStep /\ WithinTtl(DISCOVERY_CACHE, env.discovery_ttl)
          /\ DISCOVERY_CACHE.data # EmptyObj
          => /\ pc' = "jwks" /\ discovery' = DISCOVERY_CACHE.data
             /\ fetches'.discovery = 0 /\ DISCOVERY_CACHE' = DISCOVERY_CACHE
     /\ GetJwksStep /\ WithinTtl(JWKS_CACHE, env.jwks_ttl)
          /\ JWKS_CACHE.data # EmptyObj
          => /\ pc' = "token" /\ jwks' = JWKS_CACHE.data
             /\ fetches'.jwks = 0 /\ JWKS_CACHE' = JWKS_CACHE
    ]_vars

\* ---------------------------------------------------------------------- C20
\* C20: get_keyset on a key-set entry within its own TTL returns the cached
\* key set without calling get_discovery: no origin fetch is issued and both
\* entries are left as they were, also when the discovery entry is stale or
\* absent; the discovery cache is consulted only on a key-set miss.
C20_KeySetHitSkipsDiscovery ==
  [][GetJwksStep /\ WithinTtl(JWKS_CACHE, env.jwks_ttl)
       => /\ pc' = "token" /\ jwks' = JWKS_CACHE.data
          /\ fetches' = fetches
          /\ JWKS_CACHE' = JWKS_CACHE /\ DISCOVERY_CACHE' = DISCOVERY_CACHE
    ]_vars

\* C20 holds of the key-set entries that store a non-empty payload.
C20_NonEmptyKeySetHitSkipsDiscovery ==
  [][GetJwksStep /\ WithinTtl(JWKS_CACHE, env.jwks_ttl) /\ JWKS_CACHE.data # EmptyObj
       => /\ pc' = "token" /\ jwks' = JWKS_CACHE.data
          /\ fetches' = fetches
          /\ JWKS_CACHE' = JWKS_CACHE /\ DISCOVERY_CACHE' = DISCOVERY_CACHE
    ]_vars

\* ---------------------------------------------------------------------- C17
\* The token endpoint answered, without an access_token.
LacksAccessToken ==
  response # NoneObj /\ response # Fail /\ Get(response, "access_token") = None

\* C17: exchange_authorization_code reports a 401 to the caller whenever the
\* token response lacks access_token or a transport failure occurs during the
\* exchange, that of the discovery fetch included, and returns the
\* access_token value when the response has one.
C17_ExchangeFailureIs401 ==
  /\ Done /\ (failed.discovery \/ response = Fail \/ LacksAccessToken)
       => outcome.kind = "HTTPException" /\ outcome.status = 401
  /\ Done /\ response # NoneObj /\ response # Fail /\ ~LacksAccessToken
       => outcome = Returned(Str(response.access_token))

\* C17 holds of the exchanges whose discovery fetch does not fail: the post
\* to the token endpoint is inside the try block of lines 205-225.
C17_PostFailureIs401 ==
  /\ Done /\ (response = Fail \/ LacksAccessToken)
       => outcome.kind = "HTTPException" /\ outcome.status = 401
  /\ Done /\ response # NoneObj /\ response # Fail /\ ~LacksAccessToken
       => outcome = Returned(Str(response.access_token))
  /\ Done /\ failed.discovery => outcome = RequestException /\ response = NoneObj

\* ---------------------------------------------------------------------- C14
\* The header starts with the scheme 'Bearer ' in some letter case.
SchemeChars == <<{"B", "b"}, {"E", "e"}, {"A", "a"}, {"R", "r"}, {"E", "e"},
                 {"R", "r"}, {" "}>>
HasBearerScheme(req) ==
  /\ req.has_header /\ Len(req.authorization) >= 7
  /\ \A i \in 1..7 : req.authorization[i] \in SchemeChars[i]

\* inner is chars without its surrounding whitespace.
Trimmed(chars, inner) ==
  /\ inner = <<>> \/ (inner[1] \notin Whitespace /\ inner[Len(inner)] \notin Whitespace)
  /\ \E i \in 1..(Len(chars) + 1) :
       /\ i + Len(inner) - 1 <= Len(chars)
       /\ inner = SubSeq(chars, i, i + Len(inner) - 1)
       /\ \A k \in 1..Len(chars) :
            k < i \/ k > i + Len(inner) - 1 => chars[k] \in Whitespace

\* C14: require_sso_auth on a request whose authorization header is absent or
\* does not start with 'Bearer ' (in any letter case) fails as 401 'Missing
\* token' with verify_sso_token not entered, no origin fetch and both caches
\* unchanged; otherwise verify_sso_token is entered with the remainder of the
\* header after the scheme, surrounding whitespace trimmed.
C14_BearerExtraction ==
  [][/\ pc = "idle" /\ request'.served /\ ~HasBearerScheme(request')
          => /\ pc' = "done" /\ outcome' = MissingToken
             /\ token' = NoToken /\ fetches' = NoFetches
             /\ DISCOVERY_CACHE' = DISCOVERY_CACHE /\ JWKS_CACHE' = JWKS_CACHE
     /\ pc = "idle" /\ request'.served /\ HasBearerScheme(request')
          => /\ pc' = "auth" /\ outcome' = Pending
             /\ Trimmed(SubSeq(request'.authorization, 8, Len(request'.authorization)),
                        request'.token)
     /\ pc = "auth" /\ pc' # "auth"
          => token' = JwtOf(request.token) /\ request' = request
     /\ pc = "done" /\ outcome = MissingToken => pc' = "idle"
    ]_vars

\* A request with the scheme in lower case and whitespace around the token has
\* been through verify_sso_token.
C14_Witness ==
  /\ Done /\ request.served /\ outcome = InvalidToken
  /\ request.authorization = <<"b", "e", "a", "r", "e", "r", " ", " ", "a", "\t">>
  /\ request.token = <<"a">> /\ token = MalformedToken

\* ---------------------------------------------- concurrent _get_discovery
\* The call of caller c has returned or raised.
ConcDone(c) == callers[c].pc = "done"

\* The call of caller c was served from the entry (line 53).
ConcHit(c) == ConcDone(c) /\ ~callers[c].missed

\* The call of caller c fetched a document from the origin and stored it
\* (lines 54-57).
Refreshed(c) == ConcDone(c) /\ callers[c].missed /\ callers[c].fetched # NoneObj

\* C12: under every interleaving of concurrent calls, the data and the
\* timestamp a call uses for its hit test come from the same refresh, so a
\* call served from the entry returns data whose own fetch time t satisfies
\* now - t < ttl.
C12_NoTornRead ==
  \A c \in Callers :
    ConcHit(c) => /\ callers[c].cached_at = callers[c].cached_written_at
                  /\ callers[c].now - callers[c].cached_written_at < env.discovery_ttl

\* C13: once all the concurrent calls have refreshed the entry and completed,
\* the entry is the data and the timestamp written by one and the same call.
C13_LastWriterWins ==
  (\A c \in Callers : Refreshed(c))
    => \E c \in Callers :
         DISCOVERY_CACHE = [data |-> callers[c].discovery, timestamp |-> callers[c].now]

\* C19: with the discovery URL configured, concurrent calls that each found
\* the entry stale or absent have each issued one origin fetch of their own,
\* as many fetches as calls, and each call whose fetch was answered returns
\* the document of its own fetch.
C19_NoSingleFlight ==
  (env.discovery_url # "" /\ \A c \in Callers : ConcDone(c) /\ callers[c].missed)
    => /\ \A c \in Callers : callers[c].fetches = 1
       /\ \A c \in Callers :
            /\ callers[c].fetched # NoneObj
                  => callers[c].result = Returned(callers[c].fetched)
            /\ callers[c].fetched = NoneObj => callers[c].result = RequestException

\* Two calls found the entry absent before either had written, and each has
\* returned the document of its own fetch, the two documents being different.
C19_Witness ==
  /\ \A c \in Callers :
       /\ Refreshed(c) /\ callers[c].cached = NoneObj /\ callers[c].fetches = 1
       /\ callers[c].result = Returned(callers[c].fetched)
  /\ callers["c1"].fetched = Doc("issA", "uri", "te")
  /\ callers["c2"].fetched = Doc(None, "uri", "te")

\* ---------------------------------------------------------------------- C21
\* What lines 111-140 make of the record found at line 110.
VerifiedWith(record) ==
  IF record = NoneObj THEN InvalidToken
  ELSE IF record.material = "bad" THEN InvalidToken
  ELSE IF env.client_id = "" THEN ClientIdError
  ELSE jwt_decode(token, record.material, env.client_id, Issuer, now)

\* C21: the key lookup by kid yields the first record, in key-set sequence
\* order, whose kid equals the token's, and no record iff no record has that
\* kid; the token is verified with the record found and with no other, also
\* when later records share the kid.
C21_FirstMatchWins ==
  Done /\ KeysResolved /\ ~BadHeader(token)
    => /\ jwk = NoneObj <=> \A i \in 1..Len(KeysOf(jwks)) : KeysOf(jwks)[i].kid # token.kid
       /\ \A i \in 1..Len(KeysOf(jwks)) :
            FirstWithKid(jwks, token.kid, i) => jwk = KeysOf(jwks)[i]
       /\ outcome = VerifiedWith(jwk)

\* Two records share the token's kid and the token is signed with the key of
\* the second: the first record is found and the token is rejected, though it
\* is otherwise valid.
C21_Witness ==
  /\ Done /\ KeysResolved /\ ~BadHeader(token)
  /\ Len(KeysOf(jwks)) = 2
  /\ KeysOf(jwks)[1].kid = token.kid /\ KeysOf(jwks)[2].kid = token.kid
  /\ KeysOf(jwks)[2].material = token.signed_by
  /\ jwk = KeysOf(jwks)[1] /\ jwk.material # token.signed_by
  /\ token.payload.aud = env.client_id /\ token.payload.iss = Issuer
  /\ token.payload.exp > now
  /\ outcome = InvalidToken

\* ---------------------------------------------------------------------- C23
\* The step is one of verify_sso_token that leaves position `at`.
LeavesPosition(at) == pc = at /\ pc' # at

\* The step made a discovery fetch, or a key-set fetch, that succeeded.
DiscoveryFetchSucceeds(before) == fetches'.discovery > before /\ ~failed'.discovery
JwksFetchSucceeds == fetches'.jwks = 1 /\ ~failed'.jwks

\* C23: within a verify_sso_token call a cache entry is overwritten, with the
\* fetched content and the clock of the getter, by the steps whose origin
\* fetch for that cache succeeded and by no other step: a failure later in
\* the call (key-set fetch failure, missing jwks_uri, rejected token,
\* configuration error) leaves the write in place, and a step without a
\* successful fetch leaves the entry unchanged.
C23_WritesFollowFetches ==
  [][/\ LeavesPosition("idle")
          => /\ IF DiscoveryFetchSucceeds(0)
                  THEN DISCOVERY_CACHE' = [data |-> fetched'.discovery, timestamp |-> now]
                  ELSE DISCOVERY_CACHE' = DISCOVERY_CACHE
             /\ JWKS_CACHE' = JWKS_CACHE
     /\ LeavesPosition("jwks")
          => /\ IF DiscoveryFetchSucceeds(fetches.discovery)
                  THEN DISCOVERY_CACHE' = [data |-> fetched'.discovery, timestamp |-> now]
                  ELSE DISCOVERY_CACHE' = DISCOVERY_CACHE
             /\ IF JwksFetchSucceeds
                  THEN JWKS_CACHE' = [data |-> fetched'.jwks, timestamp |-> now]
                  ELSE JWKS_CACHE' = JWKS_CACHE
     /\ LeavesPosition("token") \/ LeavesPosition("done")
          => DISCOVERY_CACHE' = DISCOVERY_CACHE /\ JWKS_CACHE' = JWKS_CACHE
    ]_vars

\* On cold caches with a zero discovery TTL, the call fetched the discovery
\* document twice and then failed to fetch the key set: the discovery entry
\* holds the second document, the key-set entry is still absent.
C23_Witness ==
  /\ Done /\ outcome = RequestException /\ failed.jwks /\ ~failed.discovery
  /\ ~pre.discovery.exists /\ ~pre.jwks.exists
  /\ fetches = [discovery |-> 2, jwks |-> 1]
  /\ DISCOVERY_CACHE.data = fetched.discovery /\ Truthy(DISCOVERY_CACHE.data)
  /\ JWKS_CACHE = EmptyCache

\* ---------------------------------------------------------------------- C22
\* The call is between two of its steps.
Running == pc \in {"jwks", "token"}

\* Terminal states: the claims were returned, or an error was raised.
Verified == Done /\ outcome = Returned(token.payload)
Rejected == Done /\ outcome.kind \in {"HTTPException", "RequestException"}

\* C22: provided every origin fetch returns or fails, every verify_sso_token
\* call reaches a terminal state, which is Verified (claims returned) or
\* Rejected (error raised) and not both; a call that is not in a terminal
\* state has no outcome; a terminal state is left only by the caller going
\* on, with the outcome it had and with no further fetch; and a failed fetch
\* is not tried again, the call ends with its error.
C22_Terminates ==
  /\ Running ~> Done
  /\ [](Done => (Verified \/ Rejected) /\ ~(Verified /\ Rejected))
  /\ [](~Done => outcome = Pending)
  /\ [][Done => /\ pc' = "idle"
                /\ DISCOVERY_CACHE' = DISCOVERY_CACHE /\ JWKS_CACHE' = JWKS_CACHE
                /\ now' = now]_vars
  /\ [](fetches.discovery <= 2 /\ fetches.jwks <= 1)
  /\ [](failed.discovery \/ failed.jwks
          => /\ Done /\ outcome = RequestException
             /\ failed.jwks => ~failed.discovery
             /\ failed.discovery /\ discovery = NoneObj => fetches = [discovery |-> 1, jwks |-> 0])

\* A call went through key resolution and validation, one step after the
\* other, and was rejected at the last of them, by jwt.decode.
C22_Witness ==
  /\ Rejected /\ KeysResolved /\ jwk # NoneObj /\ jwk.material # "bad"
  /\ env.client_id # "" /\ outcome = TokenExpired
  /\ fetches = [discovery |-> 1, jwks |-> 1]

====
